---- MODULE Spec2Model ----
(***************************************************************************)
(* Bitmap allocator (allocator.c / allocator.h).                           *)
(*                                                                         *)
(* The caller's buffer starts at address `memory`.  Addresses are plain    *)
(* integers, NULL is address 0.  The two bitmaps live at the start of the  *)
(* buffer; `mem` holds the buffer's bitmap words, word k being the         *)
(* mapSize_t stored at address memory + k * sizeof(mapSize_t).  A word is  *)
(* the set of the positions of its 1-bits, so `|= 1 << b` adds b and       *)
(* `&= ~(1 << b)` removes b.  A bit operation that leaves the bitmap words *)
(* applies mem outside its domain, which TLC reports as an error.          *)
(*                                                                         *)
(* mapSize_t is uintMAPSIZE_t.  C evaluates an expression over mapSize_t   *)
(* operands in int when int is wider than mapSize_t, and in an unsigned    *)
(* type of MAPSIZE bits (modulo 2^MAPSIZE) otherwise; a value stored into  *)
(* a mapSize_t is reduced modulo 2^MAPSIZE.  The builds modelled are       *)
(* MAPSIZE 8 and 16 with a 16 or 32 bit int; values of the MAPSIZE 32      *)
(* build do not fit TLC's integers, its wrap-around is the one the         *)
(* MAPSIZE 16 build shows on a 16 bit int.                                 *)
(***************************************************************************)
EXTENDS Integers, FiniteSets, Bags, TLC

VARIABLES
    MAPSIZE,    \* allocator.h:29-31  bits of one bitmap word (build option)
    INT_BITS,   \* bits of the platform's int (decides integer promotion)
    memory,     \* address of the caller's buffer
    mem,        \* the bitmap words of the buffer
    allocator,  \* the Allocator record filled in by initAllocator
    live,       \* ghost: bag of the allocations handed out and not released
    call,       \* ghost: the last public call, its argument and its result
    before,     \* ghost: the bitmap words at the entry of the last call
    seq,        \* ghost: how the last call follows the call before it
    threads     \* the calls in progress: position and locals of each thread

vars ==
    <<MAPSIZE, INT_BITS, memory, mem, allocator, live, call, before, seq,
      threads>>

(* ---- bounds of the model ---------------------------------------------- *)

\* largest requested size enumerated besides the sizes tied to the layout
MaxRequest == 2

\* address of the caller's buffer
MemoryBase == 64

\* largest block size and largest buffer size of the layouts enumerated
MaxBlockSize == 4
MaxTotalSize == 24

(* ---- threads of the caller ---------------------------------------------- *)

Threads == {"t1", "t2"}

\* no call is in progress
Idle == [t \in Threads |-> [pc |-> "idle"]]

(* ---- pointers ---------------------------------------------------------- *)

\* the null pointer allocate returns on failure
NULL == 0

(* ---- mapSize_t arithmetic --------------------------------------------- *)

\* MAPSIZE_MAX, UINT<MAPSIZE>_MAX
MAPSIZE_MAX == 2^MAPSIZE - 1

\* sizeof(mapSize_t)
SizeofMapSize == MAPSIZE \div 8

\* conversion of a value to mapSize_t (assignment, argument passing)
ToMapSize(x) == x % (MAPSIZE_MAX + 1)

\* C integer division, truncating toward zero
CDiv(a, b) == IF a >= 0 THEN a \div b ELSE -((-a) \div b)

\* result of one arithmetic operation on mapSize_t operands: computed in int
\* when int is wider than mapSize_t, modulo 2^MAPSIZE otherwise
Arith(x) == IF MAPSIZE >= INT_BITS THEN x % (MAPSIZE_MAX + 1) ELSE x

(* ---- bit primitives --------------------------------------------------- *)

\* slot in mem of bitmap[k], bitmap being the address of a bitmap
Slot(bitmap, k) == (bitmap - memory) \div SizeofMapSize + k

\* mutant: the bit is set in the first word of the bitmap, whatever the index
setBitFirstWord(m, bitmap, index) ==
    LET s == Slot(bitmap, 0)
    IN  [m EXCEPT ![s] = m[s] \cup {index % MAPSIZE}]

setBit(m, bitmap, index) ==
    LET s == Slot(bitmap, index \div MAPSIZE)
    IN  [m EXCEPT ![s] = m[s] \cup {index % MAPSIZE}]

clearBit(m, bitmap, index) ==
    LET s == Slot(bitmap, index \div MAPSIZE)
    IN  [m EXCEPT ![s] = m[s] \ {index % MAPSIZE}]

getBit(m, bitmap, index) ==
    (index % MAPSIZE) \in m[Slot(bitmap, index \div MAPSIZE)]

(* ---- free-run scanner ------------------------------------------------- *)

RECURSIVE ScanFrom(_, _, _, _, _, _)
\* the loop of findContiguousFreeBlocks from position i with run counter count
ScanFrom(m, num_blocks, used, size, i, count) ==
    IF i >= size THEN MAPSIZE_MAX
    ELSE IF ~getBit(m, used, i)
         THEN LET c == ToMapSize(Arith(count + 1))
              IN  IF c = num_blocks
                  THEN ToMapSize(Arith(Arith(i - num_blocks) + 1))
                  ELSE ScanFrom(m, num_blocks, used, size, ToMapSize(Arith(i + 1)), c)
         ELSE ScanFrom(m, num_blocks, used, size, ToMapSize(Arith(i + 1)), 0)

RECURSIVE ScanNoReset(_, _, _, _, _, _)
\* mutant: the run counter is not reset when a used block is met
ScanNoReset(m, num_blocks, used, size, i, count) ==
    IF i >= size THEN MAPSIZE_MAX
    ELSE IF ~getBit(m, used, i)
         THEN LET c == ToMapSize(Arith(count + 1))
              IN  IF c = num_blocks
                  THEN ToMapSize(Arith(Arith(i - num_blocks) + 1))
                  ELSE ScanNoReset(m, num_blocks, used, size, ToMapSize(Arith(i + 1)), c)
         ELSE ScanNoReset(m, num_blocks, used, size, ToMapSize(Arith(i + 1)), count)

findContiguousFreeBlocksNoReset(m, num_blocks, used, size) ==
    ScanNoReset(m, num_blocks, used, size, 0, 0)

RECURSIVE ScanPastEnd(_, _, _, _, _, _)
\* mutant: the loop runs while i <= size, one position past the bitmap
ScanPastEnd(m, num_blocks, used, size, i, count) ==
    IF i > size THEN MAPSIZE_MAX
    ELSE IF ~getBit(m, used, i)
         THEN LET c == ToMapSize(Arith(count + 1))
              IN  IF c = num_blocks
                  THEN ToMapSize(Arith(Arith(i - num_blocks) + 1))
                  ELSE ScanPastEnd(m, num_blocks, used, size, ToMapSize(Arith(i + 1)), c)
         ELSE ScanPastEnd(m, num_blocks, used, size, ToMapSize(Arith(i + 1)), 0)

findContiguousFreeBlocksPastEnd(m, num_blocks, used, size) ==
    ScanPastEnd(m, num_blocks, used, size, 0, 0)

\* mutant: a request of 0 blocks is met by the empty run at index 0
findContiguousFreeBlocksEmptyRun(m, num_blocks, used, size) ==
    IF num_blocks = 0 THEN 0 ELSE ScanFrom(m, num_blocks, used, size, 0, 0)

findContiguousFreeBlocks(m, num_blocks, used, size) ==
    ScanFrom(m, num_blocks, used, size, 0, 0)

(* ---- initAllocator ---------------------------------------------------- *)

\* mutant: the bitmaps are sized in bytes of 8 bits, not in words of MAPSIZE bits
initAllocatorByteSized(block_size, base, size) ==
    LET num_blocks == ToMapSize(Arith(CDiv(size, block_size)))
        bitmap_size == ToMapSize(Arith(CDiv(Arith(num_blocks + 7), 8) * 2))
        bsize == ToMapSize(Arith(CDiv(Arith(size - bitmap_size), block_size)))
        half == CDiv(bitmap_size, 2)
    IN  [bitmaps |-> [used |-> base, heads |-> base + half, size |-> bsize],
         memory |-> [head |-> base + half + half,
                     size |-> ToMapSize(Arith(bsize * block_size))],
         block_size |-> block_size]

\* the Allocator record initAllocator(allocator, block_size, memory, size) fills in
initAllocator(block_size, base, size) ==
    LET num_blocks == ToMapSize(Arith(CDiv(size, block_size)))
        num_blocks_rounded ==
            ToMapSize(Arith(CDiv(Arith(Arith(num_blocks + MAPSIZE) - 1), MAPSIZE)))
        bitmap_size == ToMapSize(Arith(Arith(num_blocks_rounded * 2) * SizeofMapSize))
        bsize == ToMapSize(Arith(CDiv(Arith(size - bitmap_size), block_size)))
        half == CDiv(bitmap_size, 2)
    IN  [bitmaps |-> [used |-> base, heads |-> base + half, size |-> bsize],
         memory |-> [head |-> base + half + half,
                     size |-> ToMapSize(Arith(bsize * block_size))],
         block_size |-> block_size]

\* number of mapSize_t words the two bitmaps occupy in the buffer
BitmapWords(a) == (a.memory.head - a.bitmaps.used) \div SizeofMapSize

\* a zero-initialized buffer (precondition of initAllocator)
ZeroMemory(a) == [k \in 0..(BitmapWords(a) - 1) |-> {}]

(* ---- allocate ---------------------------------------------------------- *)

\* mutant: the block count is rounded down, size / block_size
AllocNumBlocksFloor(a, size) == ToMapSize(Arith(CDiv(size, a.block_size)))

\* num_blocks of allocate: (size + block_size - 1) / block_size
AllocNumBlocks(a, size) ==
    ToMapSize(Arith(CDiv(Arith(Arith(size + a.block_size) - 1), a.block_size)))

RECURSIVE MarkUsedShifted(_, _, _, _, _)
\* mutant: the used bits are set one block too far (start_index + i + 1)
MarkUsedShifted(m, a, start_index, num_blocks, i) ==
    IF i < num_blocks
    THEN MarkUsedShifted(setBit(m, a.bitmaps.used, Arith(start_index + i + 1)),
                         a, start_index, num_blocks, ToMapSize(Arith(i + 1)))
    ELSE m

\* mutant: only the first block of the run is marked used
MarkUsedFirstOnly(m, a, start_index, num_blocks, i) ==
    IF i < num_blocks THEN setBit(m, a.bitmaps.used, Arith(start_index + i)) ELSE m

RECURSIVE MarkUsed(_, _, _, _, _)
\* the loop of allocate that sets the used bits start_index + i, i < num_blocks
MarkUsed(m, a, start_index, num_blocks, i) ==
    IF i < num_blocks
    THEN MarkUsed(setBit(m, a.bitmaps.used, ToMapSize(Arith(start_index + i))),
                  a, start_index, num_blocks, ToMapSize(Arith(i + 1)))
    ELSE m

\* mutant: the head bit is set before the NOT_FOUND test, at the index reduced
\* to the bitmap's length
allocateMarkBeforeTest(m, a, size) ==
    LET num_blocks == AllocNumBlocks(a, size)
        start_index ==
            findContiguousFreeBlocks(m, num_blocks, a.bitmaps.used, a.bitmaps.size)
    IN  IF start_index = MAPSIZE_MAX
        THEN [mem |-> setBit(m, a.bitmaps.heads, start_index % a.bitmaps.size),
              ret |-> NULL]
        ELSE [mem |-> setBit(MarkUsed(m, a, start_index, num_blocks, 0),
                             a.bitmaps.heads, start_index),
              ret |-> a.memory.head + Arith(start_index * a.block_size)]

\* mutant: the head bit is set at the last block of the run
allocateHeadAtEnd(m, a, size) ==
    LET num_blocks == AllocNumBlocks(a, size)
        start_index ==
            findContiguousFreeBlocks(m, num_blocks, a.bitmaps.used, a.bitmaps.size)
    IN  IF start_index = MAPSIZE_MAX
        THEN [mem |-> m, ret |-> NULL]
        ELSE [mem |-> setBit(MarkUsed(m, a, start_index, num_blocks, 0),
                             a.bitmaps.heads,
                             ToMapSize(Arith(Arith(start_index + num_blocks) - 1))),
              ret |-> a.memory.head + Arith(start_index * a.block_size)]

\* allocate(allocator, size): the bitmap words it leaves and the pointer it returns
allocate(m, a, size) ==
    LET num_blocks == AllocNumBlocks(a, size)
        start_index ==
            findContiguousFreeBlocks(m, num_blocks, a.bitmaps.used, a.bitmaps.size)
    IN  IF start_index = MAPSIZE_MAX
        THEN [mem |-> m, ret |-> NULL]
        ELSE [mem |-> setBit(MarkUsed(m, a, start_index, num_blocks, 0),
                             a.bitmaps.heads, start_index),
              ret |-> a.memory.head + Arith(start_index * a.block_size)]

(* ---- deallocate -------------------------------------------------------- *)

RECURSIVE FreeWalkIgnoreHeads(_, _, _)
\* mutant: the walk tests the used bit only and runs over the next head
FreeWalkIgnoreHeads(m, a, index) ==
    IF getBit(m, a.bitmaps.used, index)
    THEN LET m2 == clearBit(m, a.bitmaps.used, index)
             next == ToMapSize(Arith(index + 1))
         IN  IF next >= a.bitmaps.size THEN m2 ELSE FreeWalkIgnoreHeads(m2, a, next)
    ELSE m

\* mutant: the walk clears the first block of the run and stops
FreeWalkOneBlock(m, a, index) ==
    IF getBit(m, a.bitmaps.used, index) /\ ~getBit(m, a.bitmaps.heads, index)
    THEN clearBit(m, a.bitmaps.used, index)
    ELSE m

RECURSIVE FreeWalk(_, _, _)
\* the while loop of deallocate, entered with the head bit already cleared
FreeWalk(m, a, index) ==
    IF getBit(m, a.bitmaps.used, index) /\ ~getBit(m, a.bitmaps.heads, index)
    THEN LET m2 == clearBit(m, a.bitmaps.used, index)
             next == ToMapSize(Arith(index + 1))
         IN  IF next >= a.bitmaps.size THEN m2 ELSE FreeWalk(m2, a, next)
    ELSE m

\* mutant: the byte offset is rounded up to the next block
DeallocIndexRoundUp(a, ptr) ==
    ToMapSize(CDiv(ptr - a.memory.head + a.block_size - 1, a.block_size))

\* index of deallocate: (ptr - memory.head) / block_size, stored in a mapSize_t
DeallocIndex(a, ptr) == ToMapSize(CDiv(ptr - a.memory.head, a.block_size))

\* mutant: the used bit is tested in place of the head bit
deallocateTestsUsed(m, a, ptr) ==
    LET index == DeallocIndex(a, ptr)
    IN  IF ~getBit(m, a.bitmaps.used, index)
        THEN [mem |-> m, ret |-> FALSE]
        ELSE [mem |-> FreeWalk(clearBit(m, a.bitmaps.heads, index), a, index),
              ret |-> TRUE]

\* mutant: the head bit is left set
deallocateKeepsHead(m, a, ptr) ==
    LET index == DeallocIndex(a, ptr)
    IN  IF ~getBit(m, a.bitmaps.heads, index)
        THEN [mem |-> m, ret |-> FALSE]
        ELSE [mem |-> FreeWalk(m, a, index), ret |-> TRUE]

\* mutant: the head bit is cleared and the used bits of the run are left set
deallocateHeadOnly(m, a, ptr) ==
    LET index == DeallocIndex(a, ptr)
    IN  IF ~getBit(m, a.bitmaps.heads, index)
        THEN [mem |-> m, ret |-> FALSE]
        ELSE [mem |-> clearBit(m, a.bitmaps.heads, index), ret |-> TRUE]

\* deallocate(allocator, ptr): the bitmap words it leaves and the bool it returns
deallocate(m, a, ptr) ==
    LET index == DeallocIndex(a, ptr)
    IN  IF ~getBit(m, a.bitmaps.heads, index)
        THEN [mem |-> m, ret |-> FALSE]
        ELSE [mem |-> FreeWalk(clearBit(m, a.bitmaps.heads, index), a, index),
              ret |-> TRUE]

(* ---- callers ----------------------------------------------------------- *)

\* the builds and initAllocator arguments explored; every buffer holds its
\* two bitmaps (bitmap bytes <= size) and block_size > 0, size >= block_size
Configs ==
    { [MAPSIZE |-> 8,  INT_BITS |-> 32, block_size |-> 1,     size |-> 13],
      [MAPSIZE |-> 8,  INT_BITS |-> 32, block_size |-> 3,     size |-> 16],
      [MAPSIZE |-> 16, INT_BITS |-> 32, block_size |-> 16,    size |-> 96],
      [MAPSIZE |-> 16, INT_BITS |-> 16, block_size |-> 20000, size |-> 65535] }

\* sizes a caller asks allocate for
RequestSizes(a) ==
    (0..MaxRequest)
        \cup {a.block_size, a.block_size + 1, a.memory.size, a.memory.size + 1,
              MAPSIZE_MAX}

\* pointers inside the data region a caller hands to deallocate: the first,
\* the second and the last byte of every block
RegionPointers(a) ==
    {a.memory.head + i * a.block_size + d :
        i \in 0..(a.bitmaps.size - 1),
        d \in {0, 1, a.block_size - 1} \cap (0..(a.block_size - 1))}

\* mathematical ceiling of x / y
CeilDiv(x, y) == (x + y - 1) \div y

\* ghost: the byte range [p, p + bytes) a successful allocate(size) hands out
Granted(a, p, size) ==
    [p |-> p, bytes |-> CeilDiv(size, a.block_size) * a.block_size]

\* ghost: the live allocations left when deallocate(ptr) succeeds: the
\* allocation whose first block holds ptr is released
Released(l, a, ptr) ==
    [x \in {y \in DOMAIN l : ~(y.p <= ptr /\ ptr < y.p + a.block_size)} |-> l[x]]

\* ghost: the bits, of either bitmap, in which the memories x and y differ
Flipped(x, y) ==
    UNION {{<<k, j>> : j \in (x[k] \ y[k]) \cup (y[k] \ x[k])} : k \in DOMAIN x}

\* ghost: what an allocate returning r on memory m is to the call c made just
\* before it, which took memory b to m: the reuse of the address c released,
\* for as many blocks as c released or for another number, or neither
Reuses(c, b, m, r) ==
    IF c.op = "deallocate" /\ c.ret = 1 /\ r.ret # NULL /\ r.ret = c.arg
    THEN IF Cardinality(Flipped(m, r.mem)) = Cardinality(Flipped(b, m))
         THEN "reuse" ELSE "resize"
    ELSE "none"

\* ghost: what a deallocate(ptr) is to the call c made just before it, itself
\* s to its own predecessor: the release of the pointer c allocated (through
\* a reference that went stale when c reused a released address), the
\* repetition of a release that succeeded, or neither
Follows(c, s, ptr) ==
    IF c.op = "allocate" /\ c.ret = ptr
    THEN IF s = "reuse" THEN "stale"
         ELSE IF s = "resize" THEN "staleresized" ELSE "roundtrip"
    ELSE IF c.op = "deallocate" /\ c.ret = 1 /\ c.arg = ptr THEN "doublefree"
    ELSE "none"

\* bool as the integer C returns
BoolInt(b) == IF b THEN 1 ELSE 0

Init ==
    \E c \in Configs :
        /\ MAPSIZE = c.MAPSIZE
        /\ INT_BITS = c.INT_BITS
        /\ memory = MemoryBase
        /\ allocator = initAllocator(c.block_size, MemoryBase, c.size)
        /\ mem = ZeroMemory(initAllocator(c.block_size, MemoryBase, c.size))
        /\ live = EmptyBag
        /\ call = [op |-> "initAllocator", arg |-> c.size,
                   block_size |-> c.block_size, ret |-> 0]
        /\ before = mem
        /\ seq = "none"
        /\ threads = Idle

\* the caller reuses its buffer, free and zero-filled again, for a new allocator
Initialize ==
    /\ live = EmptyBag
    /\ \A k \in DOMAIN mem : mem[k] = {}
    /\ \E c \in Configs :
        /\ c.MAPSIZE = MAPSIZE
        /\ c.INT_BITS = INT_BITS
        /\ allocator' = initAllocator(c.block_size, memory, c.size)
        /\ mem' = ZeroMemory(initAllocator(c.block_size, memory, c.size))
        /\ call' = [op |-> "initAllocator", arg |-> c.size,
                    block_size |-> c.block_size, ret |-> 0]
    /\ before' = mem'
    /\ seq' = "none"
    /\ UNCHANGED <<MAPSIZE, INT_BITS, memory, live, threads>>

\* mutant: a successful allocate takes the bytes it grants off memory.size
AllocateShrinks ==
    \E size \in RequestSizes(allocator) :
        \E r \in {allocate(mem, allocator, size)} :
            /\ mem' = r.mem
            /\ call' = [op |-> "allocate", arg |-> size, ret |-> r.ret]
            /\ live' = IF r.ret = NULL THEN live
                       ELSE live (+) SetToBag({Granted(allocator, r.ret, size)})
            /\ allocator' =
                IF r.ret = NULL THEN allocator
                ELSE [allocator EXCEPT
                        !.memory.size = @ - Granted(allocator, r.ret, size).bytes]
            /\ before' = mem
            /\ seq' = Reuses(call, before, mem, r)
            /\ UNCHANGED <<MAPSIZE, INT_BITS, memory, threads>>

\* a caller calls allocate(&allocator, size)
Allocate ==
    \E size \in RequestSizes(allocator) :
        \E r \in {allocate(mem, allocator, size)} :
            /\ mem' = r.mem
            /\ call' = [op |-> "allocate", arg |-> size, ret |-> r.ret]
            /\ live' = IF r.ret = NULL THEN live
                       ELSE live (+) SetToBag({Granted(allocator, r.ret, size)})
            /\ before' = mem
            /\ seq' = Reuses(call, before, mem, r)
            /\ UNCHANGED <<MAPSIZE, INT_BITS, memory, allocator, threads>>

\* a caller calls deallocate(&allocator, ptr) with a pointer inside the data region
Deallocate ==
    \E ptr \in RegionPointers(allocator) :
        \E r \in {deallocate(mem, allocator, ptr)} :
            /\ mem' = r.mem
            /\ call' = [op |-> "deallocate", arg |-> ptr, ret |-> BoolInt(r.ret)]
            /\ live' = IF r.ret THEN Released(live, allocator, ptr) ELSE live
            /\ before' = mem
            /\ seq' = Follows(call, seq, ptr)
            /\ UNCHANGED <<MAPSIZE, INT_BITS, memory, allocator, threads>>

Next == Initialize \/ Allocate \/ Deallocate

Spec == Init /\ [][Next]_vars

(* ---- callers of initAllocator alone ------------------------------------ *)

\* the builds: width of mapSize_t and width of int
Builds ==
    { [MAPSIZE |-> 8,  INT_BITS |-> 32],
      [MAPSIZE |-> 16, INT_BITS |-> 32],
      [MAPSIZE |-> 16, INT_BITS |-> 16] }

\* an argument converted to the mapSize_t parameter it is passed as
Passed(x) == ToMapSize(x)

\* initAllocator(&allocator, block_size, memory, size) as a caller writes it
initAllocatorCall(block_size, base, size) ==
    initAllocator(Passed(block_size), base, Passed(size))

\* block sizes and buffer sizes a caller passes, block_size > 0 and
\* size >= block_size: every small pair, buffers smaller than their two
\* bitmaps among them, the pairs of the tests and the largest buffer that
\* 16 bits describe
LayoutArgs ==
    { a \in [block_size : (1..MaxBlockSize) \cup {16, 64},
             size : (1..MaxTotalSize) \cup {128, 4096, 65535}] :
        a.size >= a.block_size }

InitLayout ==
    \E b \in Builds, a \in LayoutArgs :
        /\ MAPSIZE = b.MAPSIZE
        /\ INT_BITS = b.INT_BITS
        /\ memory = MemoryBase
        /\ allocator = initAllocatorCall(a.block_size, MemoryBase, a.size)
        /\ mem = ZeroMemory(initAllocatorCall(a.block_size, MemoryBase, a.size))
        /\ live = EmptyBag
        /\ call = [op |-> "initAllocator", arg |-> a.size,
                   block_size |-> a.block_size, ret |-> 0]
        /\ before = mem
        /\ seq = "none"
        /\ threads = Idle

\* the caller sets up another allocator on its zero-filled buffer
InitializeLayout ==
    /\ \E a \in LayoutArgs :
        /\ allocator' = initAllocatorCall(a.block_size, memory, a.size)
        /\ mem' = ZeroMemory(initAllocatorCall(a.block_size, memory, a.size))
        /\ call' = [op |-> "initAllocator", arg |-> a.size,
                    block_size |-> a.block_size, ret |-> 0]
    /\ before' = mem'
    /\ seq' = "none"
    /\ UNCHANGED <<MAPSIZE, INT_BITS, memory, live, threads>>

NextLayout == InitializeLayout

SpecLayout == InitLayout /\ [][NextLayout]_vars

(* ---- the calls, one loop iteration at a time --------------------------- *)

\* the thread whose calls are followed one step at a time
Stepper == "t1"

\* the locals of findContiguousFreeBlocks(num_blocks, used, size) at its
\* entry; op is the caller: "allocate", or "scan" for a direct call
ScanEntry(op, num_blocks, used, size) ==
    [pc |-> "scan", op |-> op, num_blocks |-> num_blocks, used |-> used,
     size |-> size, i |-> 0, count |-> 0]

\* the locals of findContiguousFreeBlocks when it returns start_index; found
\* tells the return inside the loop from the return of MAPSIZE_MAX after it
ScanExit(r, found, start_index) ==
    [pc |-> "scanned", op |-> r.op, num_blocks |-> r.num_blocks,
     size |-> r.size, i |-> r.i, found |-> found, start_index |-> start_index]

\* mutant: the loop runs while i <= size
ScanIterationPastEnd(m, r) ==
    IF r.i > r.size THEN ScanExit(r, FALSE, MAPSIZE_MAX)
    ELSE IF ~getBit(m, r.used, r.i)
         THEN LET c == ToMapSize(Arith(r.count + 1))
              IN  IF c = r.num_blocks
                  THEN ScanExit(r, TRUE,
                                ToMapSize(Arith(Arith(r.i - r.num_blocks) + 1)))
                  ELSE [r EXCEPT !.i = ToMapSize(Arith(r.i + 1)), !.count = c]
         ELSE [r EXCEPT !.i = ToMapSize(Arith(r.i + 1)), !.count = 0]

\* mutant: the start of the run is taken for i - num_blocks
ScanIterationOffByOne(m, r) ==
    IF r.i >= r.size THEN ScanExit(r, FALSE, MAPSIZE_MAX)
    ELSE IF ~getBit(m, r.used, r.i)
         THEN LET c == ToMapSize(Arith(r.count + 1))
              IN  IF c = r.num_blocks
                  THEN ScanExit(r, TRUE, ToMapSize(Arith(r.i - r.num_blocks)))
                  ELSE [r EXCEPT !.i = ToMapSize(Arith(r.i + 1)), !.count = c]
         ELSE [r EXCEPT !.i = ToMapSize(Arith(r.i + 1)), !.count = 0]

\* one test of i < size and one pass through the body of the for loop of
\* findContiguousFreeBlocks
ScanIteration(m, r) ==
    IF r.i >= r.size THEN ScanExit(r, FALSE, MAPSIZE_MAX)
    ELSE IF ~getBit(m, r.used, r.i)
         THEN LET c == ToMapSize(Arith(r.count + 1))
              IN  IF c = r.num_blocks
                  THEN ScanExit(r, TRUE,
                                ToMapSize(Arith(Arith(r.i - r.num_blocks) + 1)))
                  ELSE [r EXCEPT !.i = ToMapSize(Arith(r.i + 1)), !.count = c]
         ELSE [r EXCEPT !.i = ToMapSize(Arith(r.i + 1)), !.count = 0]

\* allocate after the scanner returned: NULL for MAPSIZE_MAX, the marking
\* loop otherwise
AfterScan(r) ==
    IF r.start_index = MAPSIZE_MAX THEN [pc |-> "idle"]
    ELSE [pc |-> "mark", num_blocks |-> r.num_blocks,
          start_index |-> r.start_index, i |-> 0]

\* one test of i < num_blocks of the marking loop of allocate, followed by
\* one setBit on used or, after the loop, by the setBit on heads and the return
MarkIteration(m, a, r) ==
    IF r.i < r.num_blocks
    THEN [mem |-> setBit(m, a.bitmaps.used, ToMapSize(Arith(r.start_index + r.i))),
          thread |-> [r EXCEPT !.i = ToMapSize(Arith(r.i + 1))],
          ret |-> NULL]
    ELSE [mem |-> setBit(m, a.bitmaps.heads, r.start_index),
          thread |-> [pc |-> "idle"],
          ret |-> a.memory.head + Arith(r.start_index * a.block_size)]

\* deallocate up to its loop: the test of the head bit, then return false or
\* clear the head bit
CheckHead(m, a, r) ==
    IF ~getBit(m, a.bitmaps.heads, r.index)
    THEN [mem |-> m, thread |-> [pc |-> "idle"], ret |-> FALSE]
    ELSE [mem |-> clearBit(m, a.bitmaps.heads, r.index),
          thread |-> [pc |-> "walk", index |-> r.index, first |-> r.index],
          ret |-> TRUE]

\* mutant: the loop has no break at the end of the bitmap
WalkIterationNoBreak(m, a, r) ==
    IF getBit(m, a.bitmaps.used, r.index) /\ ~getBit(m, a.bitmaps.heads, r.index)
    THEN [mem |-> clearBit(m, a.bitmaps.used, r.index),
          thread |-> [r EXCEPT !.index = ToMapSize(Arith(r.index + 1))]]
    ELSE [mem |-> m, thread |-> [pc |-> "idle"]]

\* one test of the condition of the while loop of deallocate and one pass
\* through its body
WalkIteration(m, a, r) ==
    IF getBit(m, a.bitmaps.used, r.index) /\ ~getBit(m, a.bitmaps.heads, r.index)
    THEN LET next == ToMapSize(Arith(r.index + 1))
         IN  [mem |-> clearBit(m, a.bitmaps.used, r.index),
              thread |-> IF next >= a.bitmaps.size THEN [pc |-> "idle"]
                         ELSE [r EXCEPT !.index = next]]
    ELSE [mem |-> m, thread |-> [pc |-> "idle"]]

\* a direct call of findContiguousFreeBlocks on a used bitmap of 2^8 bits
\* (MAPSIZE 8, block_size 1, a buffer of 255 bytes): the bits of UsedPatterns
\* are set, the length passed is one of ScanLengths
UsedPatterns == {{}, 0..255, 0..252, 1..255}

ScanLengths == {0, 1, 254, 255}

ScanCounts == {0, 1, 2, 3, 255}

InitScan ==
    \E U \in UsedPatterns, size \in ScanLengths, num_blocks \in ScanCounts :
        /\ MAPSIZE = 8
        /\ INT_BITS = 32
        /\ memory = MemoryBase
        /\ allocator = initAllocator(1, MemoryBase, 255)
        /\ mem = [k \in 0..63 |->
                    IF k < 32 THEN {b \in 0..7 : 8 * k + b \in U} ELSE {}]
        /\ live = EmptyBag
        /\ call = [op |-> "initAllocator", arg |-> 255, block_size |-> 1, ret |-> 0]
        /\ before = mem
        /\ seq = "none"
        /\ threads = [Idle EXCEPT
                        ![Stepper] = ScanEntry("scan", num_blocks, MemoryBase, size)]

\* the state after initAllocator, or a direct call of the scanner
InitSteps == Init \/ InitScan

\* call, before and seq describe whole calls: the steps leave them alone
BeginAllocate ==
    /\ threads[Stepper].pc = "idle"
    /\ \E size \in RequestSizes(allocator) :
        threads' = [threads EXCEPT
                        ![Stepper] = ScanEntry("allocate",
                                               AllocNumBlocks(allocator, size),
                                               allocator.bitmaps.used,
                                               allocator.bitmaps.size)]
    /\ UNCHANGED <<MAPSIZE, INT_BITS, memory, mem, allocator, live, call, before, seq>>

ScanStep ==
    /\ threads[Stepper].pc = "scan"
    /\ threads' = [threads EXCEPT ![Stepper] = ScanIteration(mem, @)]
    /\ UNCHANGED <<MAPSIZE, INT_BITS, memory, mem, allocator, live, call, before, seq>>

ScanReturns ==
    /\ threads[Stepper].pc = "scanned"
    /\ threads[Stepper].op = "allocate"
    /\ threads' = [threads EXCEPT ![Stepper] = AfterScan(@)]
    /\ UNCHANGED <<MAPSIZE, INT_BITS, memory, mem, allocator, live, call, before, seq>>

MarkStep ==
    /\ threads[Stepper].pc = "mark"
    /\ \E r \in {MarkIteration(mem, allocator, threads[Stepper])} :
        /\ mem' = r.mem
        /\ threads' = [threads EXCEPT ![Stepper] = r.thread]
        /\ live' = IF r.thread.pc = "idle"
                   THEN live (+) SetToBag({[p |-> r.ret,
                            bytes |-> threads[Stepper].num_blocks * allocator.block_size]})
                   ELSE live
    /\ UNCHANGED <<MAPSIZE, INT_BITS, memory, allocator, call, before, seq>>

BeginDeallocate ==
    /\ threads[Stepper].pc = "idle"
    /\ \E ptr \in RegionPointers(allocator) :
        threads' = [threads EXCEPT
                        ![Stepper] = [pc |-> "check",
                                      index |-> DeallocIndex(allocator, ptr)]]
    /\ UNCHANGED <<MAPSIZE, INT_BITS, memory, mem, allocator, live, call, before, seq>>

CheckStep ==
    /\ threads[Stepper].pc = "check"
    /\ \E r \in {CheckHead(mem, allocator, threads[Stepper])} :
        /\ mem' = r.mem
        /\ threads' = [threads EXCEPT ![Stepper] = r.thread]
    /\ UNCHANGED <<MAPSIZE, INT_BITS, memory, allocator, live, call, before, seq>>

WalkStep ==
    /\ threads[Stepper].pc = "walk"
    /\ \E r \in {WalkIteration(mem, allocator, threads[Stepper])} :
        /\ mem' = r.mem
        /\ threads' = [threads EXCEPT ![Stepper] = r.thread]
        /\ live' = IF r.thread.pc = "idle"
                   THEN Released(live, allocator,
                                 allocator.memory.head
                                    + threads[Stepper].first * allocator.block_size)
                   ELSE live
    /\ UNCHANGED <<MAPSIZE, INT_BITS, memory, allocator, call, before, seq>>

\* the steps inside a call: the caller has no part in them
Progress == ScanStep \/ ScanReturns \/ MarkStep \/ CheckStep \/ WalkStep

NextSteps == BeginAllocate \/ BeginDeallocate \/ Progress

\* a call that has started is run on: the thread is never suspended for good
SpecSteps == InitSteps /\ [][NextSteps]_vars /\ WF_vars(Progress)

(* ---- two threads in allocate ------------------------------------------- *)

\* the thread that is not t
Other(t) == CHOOSE u \in Threads : u # t

\* a thread after the scanner returned in allocate(size): NULL is returned
\* at once for MAPSIZE_MAX; overlap tells that the other thread had scanned
\* and not yet marked when this one scanned
Scanned(m, a, size, overlap) ==
    LET num_blocks == AllocNumBlocks(a, size)
        start_index == findContiguousFreeBlocks(m, num_blocks, a.bitmaps.used,
                                                a.bitmaps.size)
    IN  IF start_index = MAPSIZE_MAX
        THEN [pc |-> "returned", size |-> size, ret |-> NULL, overlap |-> overlap]
        ELSE [pc |-> "found", size |-> size, num_blocks |-> num_blocks,
              start_index |-> start_index, overlap |-> overlap]

\* mutant: the head bit is set and the used bits are not
MarkedHeadOnly(m, a, r) ==
    setBit(m, a.bitmaps.heads, r.start_index)

\* the bitmap words after the marking loop and the setBit on heads of allocate
Marked(m, a, r) ==
    setBit(MarkUsed(m, a, r.start_index, r.num_blocks, 0),
           a.bitmaps.heads, r.start_index)

\* thread t enters allocate and runs it up to the return of the scanner
Scan(t) ==
    /\ threads[t].pc = "idle"
    /\ \E size \in RequestSizes(allocator) :
        threads' = [threads EXCEPT
                        ![t] = Scanned(mem, allocator, size,
                                       threads[Other(t)].pc = "found")]
    /\ UNCHANGED <<MAPSIZE, INT_BITS, memory, mem, allocator, live, call, before, seq>>

\* thread t marks the run its scan found and returns the pointer
Mark(t) ==
    /\ threads[t].pc = "found"
    /\ \E p \in {allocator.memory.head
                    + Arith(threads[t].start_index * allocator.block_size)} :
        /\ mem' = Marked(mem, allocator, threads[t])
        /\ threads' = [threads EXCEPT
                        ![t] = [pc |-> "returned", size |-> threads[t].size,
                                ret |-> p, overlap |-> threads[t].overlap]]
        /\ live' = live (+) SetToBag({Granted(allocator, p, threads[t].size)})
    /\ UNCHANGED <<MAPSIZE, INT_BITS, memory, allocator, call, before, seq>>

NextRace == \E t \in Threads : Scan(t) \/ Mark(t)

\* two threads call allocate once each on a fresh allocator, with no lock
SpecRace == Init /\ [][NextRace]_vars

(* ---- vocabulary of the properties -------------------------------------- *)

\* data-region block capacity, data-region head and block size
Capacity == allocator.bitmaps.size
DataHead == allocator.memory.head
BlockSize == allocator.block_size

\* words of one bitmap, and the bit positions those words hold
WordsPerMap == BitmapWords(allocator) \div 2
BitIndexes == 0..(WordsPerMap * MAPSIZE - 1)

\* the indexes whose bit is set in the used / heads bitmap held in words m:
\* bit (i mod MAPSIZE) of word (i div MAPSIZE) of that bitmap
UsedSet(m) == {i \in BitIndexes : (i % MAPSIZE) \in m[i \div MAPSIZE]}
HeadsSet(m) == {i \in BitIndexes : (i % MAPSIZE) \in m[WordsPerMap + i \div MAPSIZE]}

\* the live allocations, the first block of one and the blocks of its run
Live == BagToSet(live)
StartOf(x) == (x.p - DataHead) \div BlockSize
RunOf(x) == StartOf(x)..(StartOf(x) + x.bytes \div BlockSize - 1)

(* ---- C1 ----------------------------------------------------------------- *)

\* C1: the byte ranges [p, p + ceil(size/blockSize) * blockSize) of the live
\* allocations are pairwise disjoint (no range is handed out twice) and each
\* lies inside the data region [DataHead, DataHead + Capacity * BlockSize).
C1_LiveRangesDisjointInRegion ==
    /\ \A x \in Live :
        /\ live[x] = 1
        /\ x.bytes > 0
        /\ DataHead <= x.p
        /\ x.p + x.bytes <= DataHead + Capacity * BlockSize
    /\ \A x, y \in Live :
        x # y => (x.p + x.bytes <= y.p \/ y.p + y.bytes <= x.p)

\* three allocations are live, one of them taken after a successful deallocate
\* had opened a hole between two others
C1_Witness ==
    /\ call.op = "allocate" /\ call.ret # NULL
    /\ Cardinality(Live) >= 3
    /\ \E x, y \in Live : x.p < call.ret /\ call.ret < y.p

(* ---- C2 ----------------------------------------------------------------- *)

\* C2: for every block index i < capacity, used[i] is set iff i belongs to the
\* run of a live allocation, and heads[i] is set iff i is the first block of a
\* live allocation; so each live run holds exactly one heads bit, at its first
\* block.
C2_BitmapsMatchLive ==
    /\ \A i \in 0..(Capacity - 1) :
        /\ (i \in UsedSet(mem)) <=> (\E x \in Live : i \in RunOf(x))
        /\ (i \in HeadsSet(mem)) <=> (\E x \in Live : i = StartOf(x))
    /\ \A x \in Live : HeadsSet(mem) \cap RunOf(x) = {StartOf(x)}

\* a live run that crosses from one bitmap word into the next, with another
\* live allocation ending right where it starts
C2_Witness ==
    \E x, y \in Live :
        /\ StartOf(x) < MAPSIZE
        /\ StartOf(x) + x.bytes \div BlockSize > MAPSIZE
        /\ y.p + y.bytes = x.p
        /\ Cardinality(RunOf(x)) >= 2

(* ---- C3 ----------------------------------------------------------------- *)

\* C3: in every reachable state, heads[i] set implies used[i] set, for every
\* bit of the bitmap words.
C3_HeadImpliesUsed == HeadsSet(mem) \subseteq UsedSet(mem)

\* a deallocate has just succeeded and other allocations are still live
C3_Witness ==
    /\ call.op = "deallocate" /\ call.ret = 1
    /\ Cardinality(HeadsSet(mem)) >= 2
    /\ Cardinality(UsedSet(mem)) > Cardinality(HeadsSet(mem))

(* ---- C4 ----------------------------------------------------------------- *)

\* C4: the number of set used bits is at most the capacity, and no used or
\* heads bit at an index >= capacity is ever set.
C4_UsedWithinCapacity ==
    /\ Cardinality(UsedSet(mem)) <= Capacity
    /\ \A i \in UsedSet(mem) \cup HeadsSet(mem) : i < Capacity

\* every block is used, the last one taken by an allocation of its own, and
\* the bitmap words have bits beyond the capacity
C4_Witness ==
    /\ call.op = "allocate" /\ call.ret = DataHead + (Capacity - 1) * BlockSize
    /\ UsedSet(mem) = 0..(Capacity - 1)
    /\ Capacity < WordsPerMap * MAPSIZE

(* ---- steps of the public calls ------------------------------------------ *)

\* the step is a call of allocate that returned a pointer / returned NULL
AllocateSucceeds == call'.op = "allocate" /\ call'.ret # NULL
AllocateFails == call'.op = "allocate" /\ call'.ret = NULL

\* the step is a call of deallocate that returned true
DeallocateSucceeds == call'.op = "deallocate" /\ call'.ret = 1

\* blocks t .. t+n-1 lie below the capacity and are all free in bitmap words m
Fits(t, n, m) ==
    /\ t + n <= Capacity
    /\ (t..(t + n - 1)) \cap UsedSet(m) = {}

(* ---- C5 ----------------------------------------------------------------- *)

\* C5: a successful allocate that selects start index s for n blocks sets
\* used[s..s+n-1], sets heads[s] and no other heads bit, leaves every other bit
\* of both bitmaps unchanged, and returns DataHead + s * BlockSize.
C5_AllocateEffect ==
    [][AllocateSucceeds =>
        \E s \in 0..(Capacity - 1) :
            /\ call'.ret = DataHead + s * BlockSize
            /\ UsedSet(mem') =
                 UsedSet(mem) \cup (s..(s + CeilDiv(call'.arg, BlockSize) - 1))
            /\ HeadsSet(mem') = HeadsSet(mem) \cup {s}
            /\ s \notin HeadsSet(mem)
            /\ DOMAIN mem' = DOMAIN mem]_vars

\* an allocation of two blocks has just been placed across the boundary of two
\* bitmap words, next to allocations that were live before
C5_Witness ==
    /\ call.op = "allocate"
    /\ call.ret = DataHead + (MAPSIZE - 1) * BlockSize
    /\ CeilDiv(call.arg, BlockSize) = 2
    /\ {MAPSIZE - 1, MAPSIZE} \subseteq UsedSet(mem)
    /\ MAPSIZE - 1 \in HeadsSet(mem)
    /\ Cardinality(Live) >= 3

(* ---- C6 ----------------------------------------------------------------- *)

\* C6: a successful allocate reserves exactly ceil(requestedSize / blockSize)
\* blocks, a request that is no multiple of the block size being rounded up to
\* the next whole block; so when allocate(blockSize + 1) (17 bytes with block
\* size 16) has returned the data-region head of an otherwise empty allocator,
\* a second successful allocate(blockSize + 1) returns the pointer
\* 2 * blockSize (32) bytes further.
C6_RoundsUpToWholeBlocks ==
    [][AllocateSucceeds =>
        /\ Cardinality(UsedSet(mem')) =
             Cardinality(UsedSet(mem)) + CeilDiv(call'.arg, BlockSize)
        /\ (/\ call.op = "allocate"
            /\ call.arg = BlockSize + 1
            /\ call.ret = DataHead
            /\ HeadsSet(mem) = {0}
            /\ call'.arg = BlockSize + 1)
           => call'.ret = call.ret + 2 * BlockSize]_vars

\* block size 16: the second of two allocations of 17 bytes on an empty
\* allocator has returned the pointer 32 bytes behind the first
C6_Witness ==
    /\ BlockSize = 16
    /\ call.op = "allocate" /\ call.arg = 17 /\ call.ret = DataHead + 32
    /\ HeadsSet(mem) = {0, 2}
    /\ UsedSet(mem) = {0, 1, 2, 3}

(* ---- C7 ----------------------------------------------------------------- *)

\* C7: first-fit: a successful allocate of n blocks returns the lowest start
\* index s such that used[s..s+n-1] are all clear and s + n <= capacity (no
\* lower index starts a free run of length n); the result is a function of the
\* used bitmap, the capacity and n alone.
C7_FirstFit ==
    [][AllocateSucceeds =>
        LET n == CeilDiv(call'.arg, BlockSize)
            lowest == CHOOSE t \in 0..Capacity :
                        /\ t < Capacity => Fits(t, n, mem)
                        /\ \A u \in 0..(t - 1) : ~Fits(u, n, mem)
        IN  /\ lowest < Capacity
            /\ call'.ret = DataHead + lowest * BlockSize]_vars

\* an allocation of two blocks has been placed behind a free hole of one block
\* that was too short for it
C7_Witness ==
    /\ call.op = "allocate" /\ call.ret # NULL
    /\ CeilDiv(call.arg, BlockSize) = 2
    /\ \E t \in 1..(Capacity - 1) :
        /\ DataHead + t * BlockSize < call.ret
        /\ t \notin UsedSet(mem)
        /\ {t - 1, t + 1} \subseteq UsedSet(mem)

(* ---- C8 ----------------------------------------------------------------- *)

\* C8: when allocate fails (returns null), including when the requested block
\* count exceeds the total capacity, neither the used nor the heads bitmap is
\* modified.
C8_FailedAllocateChangesNothing ==
    [][AllocateFails => mem' = mem]_vars

\* allocate has just failed for a request larger than the whole data region
\* while other allocations are live
C8_Witness ==
    /\ call.op = "allocate" /\ call.ret = NULL
    /\ call.arg > allocator.memory.size
    /\ Cardinality(HeadsSet(mem)) >= 2

(* ---- C9 ----------------------------------------------------------------- *)

\* C9: allocate returns null exactly when no sufficiently large contiguous free
\* run exists: for every requested size and every reachable bitmap state the
\* result is null iff there is no index s with
\* s + ceil(requestedSize/blockSize) <= capacity and
\* used[s..s+ceil(requestedSize/blockSize)-1] all clear.  Stated for the
\* requests of at least one byte; a request of 0 bytes, for which a run of no
\* blocks trivially exists, returns null as well.
C9_NullIffNoFreeRun ==
    [][(call'.op = "allocate" /\ call'.arg >= 1) =>
        ((call'.ret = NULL) <=>
            ~ \E s \in 0..Capacity :
                Fits(s, CeilDiv(call'.arg, BlockSize), mem))]_vars

(* ---- C10 ---------------------------------------------------------------- *)

\* C10: a successful deallocate of the pointer of a live allocation of n blocks
\* starting at index s clears heads[s] and used[s..s+n-1] and nothing else; the
\* heads and used bits of every other live allocation, also of one that starts
\* right behind the freed run, are unchanged.
C10_DeallocateEffect ==
    [][DeallocateSucceeds =>
        \A x \in Live :
            call'.arg = x.p =>
                /\ UsedSet(mem') = UsedSet(mem) \ RunOf(x)
                /\ HeadsSet(mem') = HeadsSet(mem) \ {StartOf(x)}
                /\ DOMAIN mem' = DOMAIN mem
                /\ \A y \in Live \ {x} :
                    /\ RunOf(y) \subseteq UsedSet(mem')
                    /\ StartOf(y) \in HeadsSet(mem')]_vars

\* a run of at least two blocks has just been freed between a live allocation
\* that ends where it started and a live allocation that starts where it ended
C10_Witness ==
    /\ call.op = "deallocate" /\ call.ret = 1
    /\ \E y, z \in Live :
        /\ z.p + z.bytes = call.arg
        /\ y.p >= call.arg + 2 * BlockSize
        /\ \A i \in 0..(Capacity - 1) :
            (call.arg <= DataHead + i * BlockSize /\ DataHead + i * BlockSize < y.p)
                => i \notin UsedSet(mem)

(* ---- deallocate: rejected pointers ------------------------------------- *)

\* ptr is the first byte of a block of the data region
Aligned(ptr) == (ptr - DataHead) % BlockSize = 0

\* the block of the data region ptr lies in
BlockOf(ptr) == (ptr - DataHead) \div BlockSize

DeallocateCalled == call'.op = "deallocate"

\* C11: deallocate of a block-aligned pointer of the data region whose block
\* is not a head (a free block or a continuation block) returns false and
\* leaves every word of both bitmaps as it was.
C11_NonHeadRejected ==
    [][(DeallocateCalled /\ Aligned(call'.arg)
            /\ BlockOf(call'.arg) \notin HeadsSet(mem))
        => (call'.ret = 0 /\ mem' = mem)]_vars

\* deallocate has just been refused for the first byte of a continuation
\* block of a live allocation
C11_Witness ==
    /\ call.op = "deallocate" /\ call.ret = 0
    /\ Aligned(call.arg)
    /\ BlockOf(call.arg) \in UsedSet(mem) \ HeadsSet(mem)
    /\ \E x \in Live : BlockOf(call.arg) \in RunOf(x) \ {StartOf(x)}

\* C12 as stated: deallocate of a pointer strictly inside a block returns
\* false and modifies neither bitmap, in every reachable state.
C12_InsideBlockAlwaysRejected ==
    [][(DeallocateCalled /\ ~Aligned(call'.arg))
        => (call'.ret = 0 /\ mem' = mem)]_vars

\* C12 amended: deallocate of a pointer strictly inside a block returns false
\* and modifies neither bitmap when that block is not a head; when the block
\* is the head of a live allocation the pointer is taken for the block's
\* first byte: deallocate returns true and clears the bits of that allocation.
C12_InsideBlockRejectedUnlessHead ==
    [][(DeallocateCalled /\ ~Aligned(call'.arg))
        => IF BlockOf(call'.arg) \in HeadsSet(mem)
           THEN /\ call'.ret = 1
                /\ \A x \in Live :
                    StartOf(x) = BlockOf(call'.arg) =>
                        /\ UsedSet(mem') = UsedSet(mem) \ RunOf(x)
                        /\ HeadsSet(mem') = HeadsSet(mem) \ {StartOf(x)}
           ELSE call'.ret = 0 /\ mem' = mem]_vars

\* deallocate has just been refused for a byte strictly inside a continuation
\* block of a live allocation, the block after it being the head of another
C12_Witness ==
    /\ call.op = "deallocate" /\ call.ret = 0
    /\ ~Aligned(call.arg)
    /\ BlockOf(call.arg) \in UsedSet(mem) \ HeadsSet(mem)
    /\ BlockOf(call.arg) + 1 \in HeadsSet(mem)

(* ---- allocate then deallocate ------------------------------------------ *)

\* C13: a successful allocate followed at once by deallocate of the pointer
\* it returned: deallocate returns true and every word of both bitmaps is
\* what it was at the entry of the allocate.
C13_RoundTrip ==
    [][(call.op = "allocate" /\ call.ret # NULL
            /\ DeallocateCalled /\ call'.arg = call.ret)
        => (call'.ret = 1 /\ mem' = before)]_vars

\* a run of at least two blocks, allocated by the call before, has just been
\* released while other allocations are live
C13_Witness ==
    /\ seq = "roundtrip" /\ call.ret = 1
    /\ Cardinality(UsedSet(before) \ UsedSet(mem)) >= 2
    /\ Live # {}

\* C14: deallocate of the pointer of a live allocation returns true and
\* clears the bits of its run; deallocate of the same pointer by the next
\* call returns false and leaves both bitmaps as they were.
C14_DoubleFree ==
    [][/\ DeallocateCalled =>
            \A x \in Live :
                call'.arg = x.p =>
                    /\ call'.ret = 1
                    /\ RunOf(x) \cap UsedSet(mem') = {}
                    /\ StartOf(x) \notin HeadsSet(mem')
       /\ (call.op = "deallocate" /\ call.ret = 1
                /\ DeallocateCalled /\ call'.arg = call.arg)
            => (call'.ret = 0 /\ mem' = mem)]_vars

\* the pointer of an allocation released by the call before has just been
\* refused, other allocations being live
C14_Witness ==
    /\ seq = "doublefree" /\ call.ret = 0
    /\ Aligned(call.arg)
    /\ before = mem
    /\ Live # {}

\* C15: on a freshly initialized allocator of capacity >= 1,
\* allocate(memory.size) returns the head of the data region, sets head bit 0
\* alone and every used bit below the capacity; while every block is used,
\* allocate of one byte or more returns null.
C15_WholeRegionAllocation ==
    [][/\ (call.op = "initAllocator" /\ Capacity >= 1
                /\ call'.op = "allocate" /\ call'.arg = allocator.memory.size)
            => /\ call'.ret = DataHead
               /\ HeadsSet(mem') = {0}
               /\ UsedSet(mem') = 0..(Capacity - 1)
       /\ (UsedSet(mem) = 0..(Capacity - 1)
                /\ call'.op = "allocate" /\ call'.arg >= 1)
            => call'.ret = NULL]_vars

(* ---- initAllocator: the layout ----------------------------------------- *)

\* the layout as the specification computes it from the caller's block size
\* and buffer size, in unbounded integers
RawBlockCount == call.arg \div call.block_size

BitmapWordCount == CeilDiv(RawBlockCount, MAPSIZE)

BitmapRegionBytes == BitmapWordCount * 2 * SizeofMapSize

LayoutEquations ==
    /\ allocator.bitmaps.used = memory
    /\ allocator.bitmaps.heads = memory + BitmapRegionBytes \div 2
    /\ DataHead = memory + BitmapRegionBytes
    /\ Capacity = (call.arg - BitmapRegionBytes) \div call.block_size
    /\ allocator.memory.size = Capacity * call.block_size
    /\ BlockSize = call.block_size

\* the buffer holds its two bitmaps and no step of the computation leaves
\* the range of mapSize_t
LayoutRepresentable ==
    /\ call.arg <= MAPSIZE_MAX
    /\ BitmapRegionBytes <= call.arg
    /\ (INT_BITS > MAPSIZE \/ RawBlockCount + MAPSIZE - 1 <= MAPSIZE_MAX)

\* C16: initAllocator records used at offset 0, heads at half the bitmap
\* bytes, the data head at the bitmap bytes, capacity = (totalSize - bitmap
\* bytes) / blockSize, memory.size = capacity * blockSize and the block size.
C16_LayoutRecorded ==
    call.op = "initAllocator" => LayoutEquations

\* the equations of C16 hold for every buffer that holds its bitmaps and
\* whose sizes stay in the range of mapSize_t
LayoutRecordedWhereRepresentable ==
    (call.op = "initAllocator" /\ LayoutRepresentable) => LayoutEquations

\* block size 16 and a buffer of 128 bytes: capacity 7 and memory.size 112
LayoutOfTheTest ==
    (call.op = "initAllocator" /\ call.block_size = 16 /\ call.arg = 128)
        => (Capacity = 7 /\ allocator.memory.size = 112)

\* C17: for every blockSize > 0 and totalSize >= blockSize the used bitmap,
\* the heads bitmap and the data region are adjacent spans in this order
\* inside the caller's buffer: bitmap bytes + capacity * blockSize <= totalSize.
C17_LayoutInsideBuffer ==
    call.op = "initAllocator" =>
        /\ allocator.bitmaps.used = memory
        /\ allocator.bitmaps.used <= allocator.bitmaps.heads
        /\ allocator.bitmaps.heads <= DataHead
        /\ DataHead + allocator.memory.size <= memory + call.arg
        /\ (DataHead - memory) + Capacity * BlockSize <= call.arg

\* C18: for every block size and every map width the offset of the data
\* head from the start of the buffer is a multiple of 2 * sizeof(mapSize_t).
C18_HeadAligned ==
    call.op = "initAllocator" =>
        (DataHead - memory) % (2 * SizeofMapSize) = 0

\* 16-bit words, blocks of 3 bytes, a buffer of 4096 bytes: 1365 blocks, 86
\* words per bitmap, the data head 344 bytes into the buffer
C18_Witness ==
    /\ call.op = "initAllocator" /\ call.arg = 4096 /\ call.block_size = 3
    /\ MAPSIZE = 16
    /\ WordsPerMap = 86
    /\ DataHead = memory + 344

\* sizes a caller asks for that an index of 16 bits holds
IndexRequests == {1, 17, 257, 1024}

\* C19: for every map width and every buffer size, block size and request
\* that 16 bits hold, the capacity recorded is (totalSize - bitmap bytes) /
\* blockSize and allocate takes ceil(requestedSize / blockSize) blocks,
\* neither cut to the width of mapSize_t.
C19_IndexWidthIndependent ==
    (call.op = "initAllocator" /\ BitmapRegionBytes <= call.arg) =>
        /\ Capacity = (call.arg - BitmapRegionBytes) \div call.block_size
        /\ \A req \in IndexRequests :
            AllocNumBlocks(allocator, Passed(req)) = CeilDiv(req, call.block_size)

(* ---- the Allocator record after initAllocator -------------------------- *)

\* C20: allocate and deallocate write bits of the bitmaps only: block_size,
\* the capacity, memory.size and the addresses of used, heads and the data
\* head stay what initAllocator recorded.
C20_LayoutUntouched ==
    [][call'.op \in {"allocate", "deallocate"}
        => (allocator' = allocator /\ memory' = memory)]_vars

\* allocations and a release have happened and the record is still the one
\* initAllocator computes
C20_Witness ==
    /\ call.op = "deallocate" /\ call.ret = 1
    /\ Cardinality(Live) >= 2
    /\ \E c \in Configs :
        /\ c.MAPSIZE = MAPSIZE /\ c.INT_BITS = INT_BITS
        /\ allocator = initAllocator(c.block_size, memory, c.size)

(* ---- the bit indexes of a call ------------------------------------------ *)

\* the bit indexes the next step of the thread hands to getBit, setBit or
\* clearBit, for a thread inside allocate or deallocate
NextBitIndexes(r) ==
    IF r.pc = "scan" /\ r.op = "allocate"
    THEN (IF r.i < r.size THEN {r.i} ELSE {})
    ELSE IF r.pc = "mark"
    THEN (IF r.i < r.num_blocks
          THEN {ToMapSize(Arith(r.start_index + r.i))}
          ELSE {r.start_index})
    ELSE IF r.pc \in {"check", "walk"} THEN {r.index}
    ELSE {}

\* C21: in every allocate call and every deallocate call on a pointer of the
\* data region each bit index handed to getBit, setBit or clearBit is below
\* the capacity and below the bits of one bitmap, so the word it selects is a
\* word of that bitmap: the walk of deallocate never tests bit `capacity`.
C21_BitIndexesBelowCapacity ==
    \A k \in NextBitIndexes(threads[Stepper]) :
        /\ k < Capacity
        /\ k \div MAPSIZE < WordsPerMap

\* the walk of deallocate is about to clear the last block of the data
\* region, the end of a run of two blocks or more
C21_Witness ==
    /\ threads[Stepper].pc = "walk"
    /\ threads[Stepper].index = Capacity - 1
    /\ threads[Stepper].first < threads[Stepper].index
    /\ Capacity - 1 \in UsedSet(mem) \ HeadsSet(mem)

(* ---- termination --------------------------------------------------------- *)

\* the thread is inside a call
Busy ==
    \/ threads[Stepper].pc \in {"scan", "mark", "check", "walk"}
    \/ threads[Stepper].pc = "scanned" /\ threads[Stepper].op = "allocate"

\* C22: every call that has started returns; the scanner has made at most
\* `size` passes through its loop, for every length up to MAPSIZE_MAX, and
\* the walk of deallocate at most `capacity` passes.
C22_CallsTerminate ==
    /\ [](threads[Stepper].pc = "scan"
            => threads[Stepper].i <= threads[Stepper].size)
    /\ [](threads[Stepper].pc = "walk"
            => threads[Stepper].index - threads[Stepper].first < Capacity)
    /\ (Busy ~> ~Busy)

\* the scanner has returned MAPSIZE_MAX from a bitmap of MAPSIZE_MAX bits, all
\* used, after MAPSIZE_MAX passes through its loop
C22_Witness ==
    /\ threads[Stepper].pc = "scanned"
    /\ threads[Stepper].size = MAPSIZE_MAX
    /\ threads[Stepper].i = MAPSIZE_MAX
    /\ ~threads[Stepper].found
    /\ threads[Stepper].num_blocks = 1

(* ---- the sentinel -------------------------------------------------------- *)

\* C27: for every length up to MAPSIZE_MAX and every num_blocks >= 1 the
\* index the scanner returns for a run it found is i - num_blocks + 1 as
\* computed in the integers, start + num_blocks <= size holds, and the index
\* is below the sentinel MAPSIZE_MAX.
C27_SentinelNeverAStart ==
    (threads[Stepper].pc = "scanned" /\ threads[Stepper].found
        /\ threads[Stepper].num_blocks >= 1)
    => /\ threads[Stepper].start_index
            = threads[Stepper].i - threads[Stepper].num_blocks + 1
       /\ threads[Stepper].start_index + threads[Stepper].num_blocks
            <= threads[Stepper].size
       /\ threads[Stepper].start_index < MAPSIZE_MAX

\* the scanner has found the run of two blocks that ends a bitmap of
\* MAPSIZE_MAX bits
C27_Witness ==
    /\ threads[Stepper].pc = "scanned" /\ threads[Stepper].found
    /\ threads[Stepper].size = MAPSIZE_MAX
    /\ threads[Stepper].num_blocks = 2
    /\ threads[Stepper].start_index = MAPSIZE_MAX - 2

(* ---- concurrency ---------------------------------------------------------- *)

\* both threads have returned from allocate
BothReturned == \A t \in Threads : threads[t].pc = "returned"

\* one of the threads scanned between the scan and the marking of the other
Interleaved == \E t \in Threads : threads[t].pc # "idle" /\ threads[t].overlap

\* C23: allocate takes no lock: with the scan of one call between the scan
\* and the marking of the other, both calls return the same pointer
\* (C23_Witness); the live allocations are pairwise disjoint and the pointers
\* returned differ whenever the calls were not interleaved.
C23_DisjointOnlyWhenSerialized ==
    ~Interleaved =>
        /\ \A x \in Live :
            /\ live[x] = 1
            /\ \A y \in Live \ {x} : RunOf(x) \cap RunOf(y) = {}
        /\ BothReturned =>
            (threads["t1"].ret # threads["t2"].ret \/ threads["t1"].ret = NULL)

\* both calls have returned the same pointer
C23_Witness ==
    /\ BothReturned
    /\ threads["t1"].ret = threads["t2"].ret
    /\ threads["t1"].ret # NULL
    /\ Interleaved
    /\ \E x \in Live : live[x] = 2

(* ---- no block is lost ----------------------------------------------------- *)

\* C24: once every live allocation has been deallocated both bitmaps are
\* clear, and the allocate(capacity * block_size) that follows the last
\* deallocate returns the head of the data region.
C24_NoBlockLeaked ==
    [][/\ (DeallocateSucceeds /\ live' = EmptyBag)
            => (UsedSet(mem') = {} /\ HeadsSet(mem') = {})
       /\ (call.op = "deallocate" /\ call.ret = 1 /\ live = EmptyBag
                /\ call'.op = "allocate" /\ call'.arg = Capacity * BlockSize)
            => call'.ret = DataHead]_vars

(* ---- a request of no bytes ------------------------------------------------ *)

\* C25: allocate(0) returns NULL in every state, a completely free allocator
\* included, and leaves both bitmaps as they were: the scanner reports no run
\* of length 0.
C25_ZeroRequestReturnsNull ==
    [][(call'.op = "allocate" /\ call'.arg = 0)
        => /\ call'.ret = NULL
           /\ mem' = mem
           /\ findContiguousFreeBlocks(mem, 0, allocator.bitmaps.used,
                                       allocator.bitmaps.size) = MAPSIZE_MAX]_vars

\* allocate(0) has just returned NULL on an allocator whose blocks are all
\* free, after a deallocate
C25_Witness ==
    /\ call.op = "allocate" /\ call.arg = 0 /\ call.ret = NULL
    /\ UsedSet(mem) = {} /\ HeadsSet(mem) = {}
    /\ before = mem
    /\ Capacity >= 1

(* ---- a pointer kept after its release ----------------------------------- *)

\* the call before released call.ret and the last call, an allocate, has
\* handed the same address out again
AddressReused == call.op = "allocate" /\ seq \in {"reuse", "resize"}

\* C26: when deallocate(p) has succeeded and the next allocate returns the
\* address p again, for the same or another number of blocks, deallocate(p)
\* returns true and clears every bit of the new allocation; whatever went
\* before, deallocate returns false exactly when the head bit of the
\* pointer's block is clear at its entry.
C26_StalePointerAccepted ==
    [][/\ (AddressReused /\ DeallocateCalled /\ call'.arg = call.ret)
            => /\ call'.ret = 1
               /\ \E x \in Live : x.p = call.ret
               /\ \A x \in Live :
                    x.p = call.ret =>
                        /\ UsedSet(mem') = UsedSet(mem) \ RunOf(x)
                        /\ HeadsSet(mem') = HeadsSet(mem) \ {StartOf(x)}
                        /\ x \notin BagToSet(live')
       /\ DeallocateCalled
            => (call'.ret = 0 <=> BlockOf(call'.arg) \notin HeadsSet(mem))]_vars

\* a pointer released, handed out again for another number of blocks and
\* released once more through the old reference: the call has just returned
\* true and cleared a run of at least two blocks
C26_Witness ==
    /\ seq = "staleresized"
    /\ call.op = "deallocate" /\ call.ret = 1
    /\ Cardinality(UsedSet(before) \ UsedSet(mem)) >= 2
    /\ BlockOf(call.arg) \in HeadsSet(before) \ HeadsSet(mem)

====
